---- MODULE Spec2Model ----
(***************************************************************************)
(* marc-cli: lookup of MARC 21 field definitions (src/marc_cli/main.py),   *)
(* and the scraper that builds its dataset (src/scrape_marc.py).           *)
(* One behaviour of Spec is one run of main(): the dataset file is loaded, *)
(* the query is classified, matched and ranked, and the matches are        *)
(* rendered.  FormatSpec applies the two renderers to one entry,           *)
(* RepeatSpec runs a search a second time, and ScrapeSpec is one call of   *)
(* scrape_all_fields().  Python strings are sequences of characters; a     *)
(* character is a one-character string, except "U+00B2" which stands for   *)
(* the character SUPERSCRIPT TWO.                                          *)
(***************************************************************************)
EXTENDS Naturals, Sequences, FiniteSets

VARIABLES
    pc,           \* position of main(): start, loaded, code, keyword_branch,
                  \* keyword, done, exit; the other specifications have
                  \* positions of their own
    verbose,      \* args.verbose
    query,        \* args.query
    file_exists,  \* data_file.exists() for the file main() selects
    data,         \* the dict main() holds after loading: the (key, entry) pairs of
                  \* the JSON object of the file, in file order
    matches,      \* the list returned by the search
    calls,        \* the functions main() has called so far, in call order
    output,       \* what has been printed, one element per print()
    exit_code,    \* "running", or the process's exit status: "0" or "1"
    previous,     \* the list the search before the last one returned
    all_data,     \* scrape_all_fields: the dict under construction, the
                  \* (key, entry) pairs in insertion order
    seen_fields,  \* scrape_all_fields: the set seen_fields
    pages,        \* scrape_all_fields: the pages of FIELD_RANGE_PAGES not yet
                  \* fetched
    fields_left,  \* scrape_all_fields: the rest of the list `fields` (or of
                  \* LINKING_ENTRY_FIELDS) the running for loop iterates over
    field_num,    \* scrape_all_fields: the loop variable field_num
    subfields_left \* scrape_all_fields: the subfields of field_num still to add

\* The variables of scrape_all_fields.
scraper == <<all_data, seen_fields, pages, fields_left, field_num,
            subfields_left>>

vars == <<pc, verbose, query, file_exists, data, matches, calls, output, exit_code,
          previous, scraper>>

\* scrape_all_fields is not running.
ScraperIdle ==
    /\ all_data = <<>>
    /\ seen_fields = {}
    /\ pages = <<>>
    /\ fields_left = <<>>
    /\ field_num = <<>>
    /\ subfields_left = <<>>

----------------------------------------------------------------------------
(* Bounds of the model.                                                    *)

\* The largest number of entries of a dataset.
MaxRecords == 3

----------------------------------------------------------------------------
(* Characters and the str methods the program uses.                        *)

DigitSeq == <<"0", "1", "2", "3", "4", "5", "6", "7", "8", "9">>
UpperSeq == <<"A", "B", "C", "D", "E", "F", "G", "H", "I", "J", "K", "L", "M",
              "N", "O", "P", "Q", "R", "S", "T", "U", "V", "W", "X", "Y", "Z">>
LowerSeq == <<"a", "b", "c", "d", "e", "f", "g", "h", "i", "j", "k", "l", "m",
              "n", "o", "p", "q", "r", "s", "t", "u", "v", "w", "x", "y", "z">>
\* space ( ) , - / and SUPERSCRIPT TWO, in code point order
OtherSeq == <<" ", "(", ")", ",", "-", "/", "U+00B2">>
OtherCode == <<32, 40, 41, 44, 45, 47, 178>>

Range(s) == {s[i] : i \in DOMAIN s}
IndexOf(s, c) == CHOOSE i \in DOMAIN s : s[i] = c

Alphabet == Range(DigitSeq) \cup Range(UpperSeq) \cup Range(LowerSeq) \cup Range(OtherSeq)

\* ord(c)
CodePoint ==
    [c \in Alphabet |->
        IF c \in Range(DigitSeq) THEN 47 + IndexOf(DigitSeq, c)
        ELSE IF c \in Range(UpperSeq) THEN 64 + IndexOf(UpperSeq, c)
        ELSE IF c \in Range(LowerSeq) THEN 96 + IndexOf(LowerSeq, c)
        ELSE OtherCode[IndexOf(OtherSeq, c)]]

\* c.lower() of one character
LowerChar ==
    [c \in Alphabet |->
        IF c \in Range(UpperSeq) THEN LowerSeq[IndexOf(UpperSeq, c)] ELSE c]

\* c.isdigit(): Numeric_Type Decimal or Digit, so SUPERSCRIPT TWO is a digit
isdigit(c) == c \in Range(DigitSeq) \cup {"U+00B2"}

\* c.isalpha()
isalpha(c) == c \in Range(UpperSeq) \cup Range(LowerSeq)

\* c.isspace()
isspace(c) == c = " "

\* s.lower()
lower(s) == [i \in DOMAIN s |-> LowerChar[s[i]]]

\* s.startswith(p)
startswith(s, p) == Len(p) <= Len(s) /\ SubSeq(s, 1, Len(p)) = p

\* s.endswith(p)
endswith(s, p) == Len(p) <= Len(s) /\ SubSeq(s, Len(s) - Len(p) + 1, Len(s)) = p

\* contains that finds no empty substring.
contains_nonempty(s, p) ==
    p # <<>> /\ \E i \in 0..(Len(s) - Len(p)) : SubSeq(s, i + 1, i + Len(p)) = p

\* p in s, for strings: p occurs in s as a contiguous substring
contains(s, p) == \E i \in 0..(Len(s) - Len(p)) : SubSeq(s, i + 1, i + Len(p)) = p

\* s.replace(old, new) for one-character old and new
replace(s, old, new) == [i \in DOMAIN s |-> IF s[i] = old THEN new ELSE s[i]]

\* s.split(): the maximal runs of non-whitespace characters, in order
RECURSIVE split_from(_, _, _)
split_from(s, i, word) ==
    IF i > Len(s) THEN (IF word = <<>> THEN <<>> ELSE <<word>>)
    ELSE IF isspace(s[i])
         THEN (IF word = <<>> THEN <<>> ELSE <<word>>) \o split_from(s, i + 1, <<>>)
         ELSE split_from(s, i + 1, Append(word, s[i]))

split(s) == split_from(s, 1, <<>>)

\* s.strip()
RECURSIVE lstrip(_)
lstrip(s) == IF s # <<>> /\ isspace(Head(s)) THEN lstrip(Tail(s)) ELSE s

RECURSIVE rstrip(_)
rstrip(s) ==
    IF s # <<>> /\ isspace(s[Len(s)]) THEN rstrip(SubSeq(s, 1, Len(s) - 1)) ELSE s

strip(s) == rstrip(lstrip(s))

\* a < b for strings: by code point, a proper prefix first
RECURSIVE StrLess(_, _)
StrLess(a, b) ==
    IF b = <<>> THEN FALSE
    ELSE IF a = <<>> THEN TRUE
    ELSE IF Head(a) = Head(b) THEN StrLess(Tail(a), Tail(b))
    ELSE CodePoint[Head(a)] < CodePoint[Head(b)]

\* list.sort(key=...): stable and ascending.  lt holds the pairs <<i, j>> of
\* positions of s with key(s[i]) < key(s[j]).  An item's place is the number
\* of items that sort before it: those with a smaller key, and those with an
\* equal key that stand before it in s.
stable_sort(s, lt) ==
    LET before(i) == {j \in DOMAIN s :
                        \/ <<j, i>> \in lt
                        \/ <<i, j>> \notin lt /\ j < i}
    IN  [p \in DOMAIN s |-> s[CHOOSE i \in DOMAIN s : Cardinality(before(i)) + 1 = p]]

----------------------------------------------------------------------------
(* The datasets and queries the runs are checked on.                       *)

\* "International Standard Book Number (ISBN) (NR)"
ISBN_FIELD ==
    <<"I", "n", "t", "e", "r", "n", "a", "t", "i", "o", "n", "a", "l", " ",
      "S", "t", "a", "n", "d", "a", "r", "d", " ", "B", "o", "o", "k", " ",
      "N", "u", "m", "b", "e", "r", " ", "(", "I", "S", "B", "N", ")", " ",
      "(", "N", "R", ")">>

\* "ISBN-related note (R)"
ISBN_NOTE ==
    <<"I", "S", "B", "N", "-", "r", "e", "l", "a", "t", "e", "d", " ", "n",
      "o", "t", "e", " ", "(", "R", ")">>

\* "Void ISBNs (R)"
ISBN_PLURAL ==
    <<"V", "o", "i", "d", " ", "I", "S", "B", "N", "s", " ", "(", "R", ")">>

\* The Value strings of the entries.
ValuePool == {ISBN_FIELD, ISBN_NOTE, ISBN_PLURAL}

\* The keys of the entries: fields 020 and 022, and the subfield keys 020a
\* and 0206A of field 020.
KeyPool ==
    {<<"0", "2", "0">>, <<"0", "2", "0", "a">>, <<"0", "2", "0", "6", "A">>,
     <<"0", "2", "2">>}

\* args.query: "", isbn, Note, A, 02, 020A, 0206a, 9, and a query that starts
\* with SUPERSCRIPT TWO.
QueryPool ==
    {<<>>, <<"i", "s", "b", "n">>, <<"N", "o", "t", "e">>, <<"A">>,
     <<"0", "2">>, <<"0", "2", "0", "A">>, <<"0", "2", "0", "6", "a">>, <<"9">>,
     <<"U+00B2", "0">>}

\* Details of field 020 in marc-verbose.json: a definition, one indicator,
\* subfields a, z and 6, and seven examples.
Details020 ==
    [definition |-> "International Standard Book Number assigned to an item.",
     indicators |-> << <<"First Indicator", <<"# - Undefined">> >> >>,
     subfields  |-> << << <<"6">>, [description |-> "Linkage", extended |-> "", repeatability |-> "NR"]>>,
                       << <<"a">>, [description |-> "International Standard Book Number",
                               extended |-> "Valid ISBN.", repeatability |-> "NR"]>>,
                       << <<"z">>, [description |-> "Canceled/invalid ISBN", extended |-> "",
                               repeatability |-> "R"]>> >>,
     examples   |-> <<"ex1", "ex2", "ex3", "ex4", "ex5", "ex6", "ex7">>]

\* One entry of the dataset file.  In marc-verbose.json the entry of field 020
\* carries Details; field 022 has none (its concise page gave no details), and
\* no subfield entry and no entry of marc.json carries Details.
Entry(key, value, v) ==
    IF v /\ key = <<"0", "2", "0">>
    THEN [Key |-> key, Value |-> value, Created |-> "timestamp", Details |-> Details020]
    ELSE [Key |-> key, Value |-> value, Created |-> "timestamp"]

\* The key invariant of a dataset: every key has 3 characters, or more than 3
\* and its first 3 characters are a key of the dataset.
KeyInvariant(keys) ==
    \A k \in keys : Len(k) = 3 \/ (Len(k) > 3 /\ SubSeq(k, 1, 3) \in keys)

\* The key orders of the datasets: at most MaxRecords distinct keys.
KeySeqs ==
    {ks \in UNION {[1..n -> KeyPool] : n \in 0..MaxRecords} :
        /\ \A i, j \in DOMAIN ks : i # j => ks[i] # ks[j]
        /\ KeyInvariant(Range(ks))}

\* The contents a dataset file can have: the (key, entry) pairs in file order.
Datasets(v) ==
    UNION {{[i \in DOMAIN ks |-> <<ks[i], Entry(ks[i], vs[i], v)>>] :
                vs \in [DOMAIN ks -> ValuePool]} : ks \in KeySeqs}

\* The marc.json that the scraper writes beside a marc-verbose.json: the same
\* keys in the same order, each entry reduced to Key, Value and Created.
SimpleData(d) ==
    [i \in DOMAIN d |->
        <<d[i][1], [Key |-> d[i][2].Key, Value |-> d[i][2].Value,
                    Created |-> d[i][2].Created]>>]

----------------------------------------------------------------------------
(* Classification and the two searches.                                    *)

\* is_code_query with the test `query[0].isalnum()`.
is_code_query_alnum(q) == q # <<>> /\ (isdigit(q[1]) \/ isalpha(q[1]))

\* is_code_query(query): the truth value of `query and query[0].isdigit()`.
\* For the empty string the expression is the empty string itself, which is
\* falsy, and query[0] is not evaluated.
is_code_query(q) == q # <<>> /\ isdigit(q[1])

\* code_matches without key.lower(): key.startswith(code_lower).
code_matches_case_sensitive(key, code_lower) == startswith(key, code_lower)

\* The test of search_by_code's loop: key.lower().startswith(code_lower).
code_matches(key, code_lower) == startswith(lower(key), code_lower)

\* sort_key that tells fields from subfields only: (len(key) > 3, key).
sort_key_length_only(item) ==
    LET key == item[1]
    IN  IF Len(key) = 3 THEN <<0, key>> ELSE <<1, key>>

\* sort_key of search_by_code: (0, key) for a field, (1, key) for a subfield
\* whose code is alphabetic, (2, key) for any other subfield.
sort_key(item) ==
    LET key == item[1]
    IN  IF Len(key) = 3 THEN <<0, key>>
        ELSE IF isalpha(key[4]) THEN <<1, key>>
        ELSE <<2, key>>

\* a < b for two results of sort_key
sort_key_less(a, b) == a[1] < b[1] \/ (a[1] = b[1] /\ StrLess(a[2], b[2]))

\* The pairs of positions of items whose sort keys ascend strictly.
code_items_less(items) ==
    {p \in (DOMAIN items) \X (DOMAIN items) :
        sort_key_less(sort_key(items[p[1]]), sort_key(items[p[2]]))}

\* search_by_code(data, code): the (key, entry) pairs whose key matches, sorted.
search_by_code(d, code) ==
    LET code_lower == lower(code)
        found == SelectSeq(d, LAMBDA item : code_matches(item[1], code_lower))
    IN  stable_sort(found, code_items_less(found))

\* words_of that does not replace the hyphen.
words_of_keeping_hyphen(value_lower) ==
    split(replace(replace(replace(replace(value_lower,
        "/", " "), ",", " "), "(", " "), ")", " "))

\* The words of a lowercased Value: - / , ( ) become spaces, then split().
words_of(value_lower) ==
    split(replace(replace(replace(replace(replace(value_lower,
        "-", " "), "/", " "), ",", " "), "(", " "), ")", " "))

\* is_exact of search_by_keyword: keyword_lower in words
is_exact_match(value, keyword_lower) ==
    keyword_lower \in Range(words_of(lower(value)))

\* keyword_matches that also looks for the keyword in the key.
keyword_matches_key_too(key, value, keyword_lower) ==
    contains(lower(value), keyword_lower) \/ contains(lower(key), keyword_lower)

\* The test of search_by_keyword's loop: keyword_lower in value_lower.
keyword_matches(key, value, keyword_lower) == contains(lower(value), keyword_lower)

\* keyword_sort_key without the `not`: (x[2], len(x[0]) > 3, len(x[0]), x[0])
keyword_sort_key_exact_last(x) == <<x[3], Len(x[1]) > 3, Len(x[1]), x[1]>>

\* The sort key of search_by_keyword: (not x[2], len(x[0]) > 3, len(x[0]), x[0])
keyword_sort_key(x) == <<~x[3], Len(x[1]) > 3, Len(x[1]), x[1]>>

\* False < True
BoolLess(a, b) == ~a /\ b

\* a < b for two results of keyword_sort_key
keyword_key_less(a, b) ==
    \/ BoolLess(a[1], b[1])
    \/ a[1] = b[1] /\ BoolLess(a[2], b[2])
    \/ a[1] = b[1] /\ a[2] = b[2] /\ a[3] < b[3]
    \/ a[1] = b[1] /\ a[2] = b[2] /\ a[3] = b[3] /\ StrLess(a[4], b[4])

\* The pairs of positions of items whose sort keys ascend strictly.
keyword_items_less(items) ==
    {p \in (DOMAIN items) \X (DOMAIN items) :
        keyword_key_less(keyword_sort_key(items[p[1]]), keyword_sort_key(items[p[2]]))}

\* The list search_by_keyword sorts: (key, entry, is_exact) for each match.
keyword_triples(d, keyword_lower) ==
    LET tagged == [i \in DOMAIN d |->
                      <<d[i][1], d[i][2], is_exact_match(d[i][2].Value, keyword_lower)>>]
    IN  SelectSeq(tagged, LAMBDA x : keyword_matches(x[1], x[2].Value, keyword_lower))

\* search_by_keyword(data, keyword): the sorted matches without the flag.
search_by_keyword(d, keyword) ==
    LET found == keyword_triples(d, lower(keyword))
        sorted == stable_sort(found, keyword_items_less(found))
    IN  [i \in DOMAIN sorted |-> <<sorted[i][1], sorted[i][2]>>]

----------------------------------------------------------------------------
(* Rendering.  A printed string is modelled by its parts: colours are left *)
(* out, the order and the content of the parts are kept.                   *)

\* One print(): its kind, the key it renders (if any) and its parts.
Printed(kind, key, display_key, value, repeatability, body, n) ==
    [kind |-> kind, key |-> key, display_key |-> display_key, value |-> value,
     repeatability |-> repeatability, body |-> body, n |-> n]

\* A message that renders no entry; n is the number it shows, if any.
Message(kind, n) == Printed(kind, <<>>, <<>>, <<>>, "", <<>>, n)

\* One line of the detailed rendering.
BodyLine(tag, n, text) == [tag |-> tag, n |-> n, text |-> text]

\* format_output without the .strip() of the shortened value.
format_output_unstripped(key, value) ==
    LET is_field == Len(key) = 3
        display_key == IF is_field THEN key
                       ELSE SubSeq(key, 1, 3) \o <<"$">> \o SubSeq(key, 4, Len(key))
    IN  IF endswith(value, <<"(", "R", ")">>)
        THEN Printed("brief", key, display_key,
                     SubSeq(value, 1, Len(value) - 3), "(R)", <<>>, 0)
        ELSE IF endswith(value, <<"(", "N", "R", ")">>)
        THEN Printed("brief", key, display_key,
                     SubSeq(value, 1, Len(value) - 4), "(NR)", <<>>, 0)
        ELSE Printed("brief", key, display_key, value, "", <<>>, 0)

\* format_output(key, value): the brief rendering of one entry.
format_output(key, value) ==
    LET is_field == Len(key) = 3
        display_key == IF is_field THEN key
                       ELSE SubSeq(key, 1, 3) \o <<"$">> \o SubSeq(key, 4, Len(key))
    IN  IF endswith(value, <<"(", "R", ")">>)
        THEN Printed("brief", key, display_key,
                     strip(SubSeq(value, 1, Len(value) - 3)), "(R)", <<>>, 0)
        ELSE IF endswith(value, <<"(", "N", "R", ")">>)
        THEN Printed("brief", key, display_key,
                     strip(SubSeq(value, 1, Len(value) - 4)), "(NR)", <<>>, 0)
        ELSE Printed("brief", key, display_key, value, "", <<>>, 0)

RECURSIVE Flatten(_)
Flatten(ss) == IF ss = <<>> THEN <<>> ELSE Head(ss) \o Flatten(Tail(ss))

\* s.isdigit() of a string: not empty and every character a digit
str_isdigit(s) == s # <<>> /\ \A i \in DOMAIN s : isdigit(s[i])

\* key=lambda x: (x[0].isdigit(), x[0]) of the subfields of a detailed rendering
subfield_items_less(items) ==
    {p \in (DOMAIN items) \X (DOMAIN items) :
        LET x == items[p[1]]
            y == items[p[2]]
        IN  \/ BoolLess(str_isdigit(x[1]), str_isdigit(y[1]))
            \/ str_isdigit(x[1]) = str_isdigit(y[1]) /\ StrLess(x[1], y[1])}

\* The Definition section of format_verbose_output.
definition_lines(details) ==
    IF details.definition # ""
    THEN <<BodyLine("Definition:", 0, ""), BodyLine("definition", 0, details.definition)>>
    ELSE <<>>

\* The Indicators section: the indicators in stored order, each with its values.
indicator_lines(details) ==
    IF details.indicators # <<>>
    THEN <<BodyLine("Indicators:", 0, "")>>
         \o Flatten([i \in DOMAIN details.indicators |->
                LET name == details.indicators[i][1]
                    values == details.indicators[i][2]
                IN  <<BodyLine("indicator_name", 0, name)>>
                    \o [j \in DOMAIN values |-> BodyLine("indicator_value", 0, values[j])]])
         \o <<BodyLine("", 0, "")>>
    ELSE <<>>

\* The Subfields section: alphabetic codes first, then numeric ones.
subfield_lines(details) ==
    IF details.subfields # <<>>
    THEN LET subfield_items ==
                 stable_sort(details.subfields, subfield_items_less(details.subfields))
         IN  <<BodyLine("Subfields:", 0, "")>>
             \o Flatten([i \in DOMAIN subfield_items |->
                    LET subfield_code == subfield_items[i][1]
                        subfield_info == subfield_items[i][2]
                    IN  <<[tag |-> "subfield", n |-> 0, text |-> subfield_info.description,
                           code |-> subfield_code,
                           repeatability |-> subfield_info.repeatability]>>
                        \o (IF subfield_info.extended # ""
                            THEN <<BodyLine("extended", 0, subfield_info.extended)>>
                            ELSE <<>>)])
             \o <<BodyLine("", 0, "")>>
    ELSE <<>>

\* The number of examples a detailed rendering shows: details["examples"][:5]
ExamplesShown == 5

\* example_lines without the [:5] slice: every example is shown.
example_lines_uncapped(details) ==
    IF details.examples # <<>>
    THEN <<BodyLine("Examples:", 0, "")>>
         \o [i \in DOMAIN details.examples |-> BodyLine("example", i, details.examples[i])]
         \o <<BodyLine("", 0, "")>>
    ELSE <<>>

\* The Examples section: the first ExamplesShown examples, numbered from 1.
example_lines(details) ==
    IF details.examples # <<>>
    THEN LET shown == SubSeq(details.examples, 1,
                             IF Len(details.examples) < ExamplesShown
                             THEN Len(details.examples) ELSE ExamplesShown)
         IN  <<BodyLine("Examples:", 0, "")>>
             \o [i \in DOMAIN shown |-> BodyLine("example", i, shown[i])]
             \o <<BodyLine("", 0, "")>>
    ELSE <<>>

\* format_verbose_output(key, entry): the detailed rendering of a field that
\* has Details, the brief rendering of anything else.
format_verbose_output(key, entry) ==
    IF Len(key) # 3 \/ "Details" \notin DOMAIN entry
    THEN format_output(key, entry.Value)
    ELSE LET details == entry.Details
         IN  Printed("detailed", key, key, entry.Value, "",
                     <<BodyLine("header", 0, "")>>
                     \o definition_lines(details)
                     \o indicator_lines(details)
                     \o subfield_lines(details)
                     \o example_lines(details), 0)

\* display_results without the len(key) == 3 test of verbose mode.
display_results_every_key(ms, v) ==
    IF ms = <<>> THEN <<Message("No matches found.", 0)>>
    ELSE IF v
    THEN [i \in DOMAIN ms |-> format_verbose_output(ms[i][1], ms[i][2])]
    ELSE [i \in DOMAIN ms |-> format_output(ms[i][1], ms[i][2].Value)]

\* display_results(matches, verbose): what it prints, in order.
display_results(ms, v) ==
    IF ms = <<>> THEN <<Message("No matches found.", 0)>>
    ELSE IF v
    THEN LET fields == SelectSeq(ms, LAMBDA m : Len(m[1]) = 3)
         IN  [i \in DOMAIN fields |-> format_verbose_output(fields[i][1], fields[i][2])]
    ELSE [i \in DOMAIN ms |-> format_output(ms[i][1], ms[i][2].Value)]

----------------------------------------------------------------------------
(* main(): one run of the program.                                         *)

Init ==
    /\ pc = "start"
    /\ verbose \in BOOLEAN
    /\ query \in QueryPool
    /\ file_exists \in BOOLEAN
    /\ data = <<>>
    /\ matches = <<>>
    /\ calls = <<>>
    /\ output = <<>>
    /\ exit_code = "running"
    /\ previous = <<>>
    /\ ScraperIdle

\* The loader main() calls: load_verbose_data() if args.verbose, else load_marc_data().
Loader == IF verbose THEN "load_verbose_data" ELSE "load_marc_data"

\* LoadMissing without sys.exit(1): the run goes on with no data.
LoadMissingNoExit ==
    /\ pc = "start"
    /\ ~file_exists
    /\ calls' = Append(calls, Loader)
    /\ output' = output \o <<Message("Error: file not found", 0),
                             Message("Run 'python scrape_marc.py' to generate the data file.", 0)>>
    /\ pc' = "loaded"
    /\ UNCHANGED <<previous, scraper, verbose, query, file_exists, data, matches, exit_code>>

\* load_marc_data() / load_verbose_data() when the file does not exist:
\* two lines are printed and sys.exit(1) ends the run.
LoadMissing ==
    /\ pc = "start"
    /\ ~file_exists
    /\ calls' = Append(calls, Loader)
    /\ output' = output \o <<Message("Error: file not found", 0),
                             Message("Run 'python scrape_marc.py' to generate the data file.", 0)>>
    /\ exit_code' = "1"
    /\ pc' = "exit"
    /\ UNCHANGED <<previous, scraper, verbose, query, file_exists, data, matches>>

\* load_marc_data() / load_verbose_data() when the file exists: json.load(f)
\* returns the content of the file.
LoadData ==
    /\ pc = "start"
    /\ file_exists
    /\ calls' = Append(calls, Loader)
    /\ data' \in Datasets(verbose)
    /\ pc' = "loaded"
    /\ UNCHANGED <<previous, scraper, verbose, query, file_exists, matches, output, exit_code>>

\* main(), the branch of a code query: is_code_query(query) is truthy and
\* search_by_code runs.
CodeSearch ==
    /\ pc = "loaded"
    /\ is_code_query(query)
    /\ calls' = calls \o <<"is_code_query", "search_by_code">>
    /\ matches' = search_by_code(data, query)
    /\ pc' = "code"
    /\ UNCHANGED <<previous, scraper, verbose, query, file_exists, data, output, exit_code>>

\* main(), the branch of a keyword query: is_code_query(query) is falsy, and
\* the notice is printed if args.verbose.
KeywordNotice ==
    /\ pc = "loaded"
    /\ ~is_code_query(query)
    /\ calls' = Append(calls, "is_code_query")
    /\ output' = output \o
          (IF verbose
           THEN <<Message("Note: Verbose mode is not available for keyword searches.", 0)>>
           ELSE <<>>)
    /\ pc' = "keyword_branch"
    /\ UNCHANGED <<previous, scraper, verbose, query, file_exists, data, matches, exit_code>>

\* main(), the branch of a keyword query: matches = search_by_keyword(data, query)
KeywordSearch ==
    /\ pc = "keyword_branch"
    /\ calls' = Append(calls, "search_by_keyword")
    /\ matches' = search_by_keyword(data, query)
    /\ pc' = "keyword"
    /\ UNCHANGED <<previous, scraper, verbose, query, file_exists, data, output, exit_code>>

\* main(), a code query with matches: display_results(matches, verbose=args.verbose)
CodeDisplay ==
    /\ pc = "code"
    /\ matches # <<>>
    /\ calls' = Append(calls, "display_results")
    /\ output' = output \o display_results(matches, verbose)
    /\ exit_code' = "0"
    /\ pc' = "done"
    /\ UNCHANGED <<previous, scraper, verbose, query, file_exists, data, matches>>

\* main(), a code query without matches
CodeNoMatch ==
    /\ pc = "code"
    /\ matches = <<>>
    /\ output' = Append(output, Message("No field found matching code:", 0))
    /\ exit_code' = "0"
    /\ pc' = "done"
    /\ UNCHANGED <<previous, scraper, verbose, query, file_exists, data, matches, calls>>

\* KeywordDisplay that passes verbose=args.verbose to display_results.
KeywordDisplayVerbose ==
    /\ pc = "keyword"
    /\ matches # <<>>
    /\ calls' = Append(calls, "display_results")
    /\ output' = output
          \o (IF Len(matches) > 1 THEN <<Message("Found matches:", Len(matches))>> ELSE <<>>)
          \o display_results(matches, verbose)
    /\ exit_code' = "0"
    /\ pc' = "done"
    /\ UNCHANGED <<previous, scraper, verbose, query, file_exists, data, matches>>

\* main(), a keyword query with matches: the count if there are several,
\* then display_results(matches, verbose=False)
KeywordDisplay ==
    /\ pc = "keyword"
    /\ matches # <<>>
    /\ calls' = Append(calls, "display_results")
    /\ output' = output
          \o (IF Len(matches) > 1 THEN <<Message("Found matches:", Len(matches))>> ELSE <<>>)
          \o display_results(matches, FALSE)
    /\ exit_code' = "0"
    /\ pc' = "done"
    /\ UNCHANGED <<previous, scraper, verbose, query, file_exists, data, matches>>

\* main(), a keyword query without matches
KeywordNoMatch ==
    /\ pc = "keyword"
    /\ matches = <<>>
    /\ output' = Append(output, Message("No fields found matching keyword:", 0))
    /\ exit_code' = "0"
    /\ pc' = "done"
    /\ UNCHANGED <<previous, scraper, verbose, query, file_exists, data, matches, calls>>

Next ==
    \/ LoadMissing
    \/ LoadData
    \/ CodeSearch
    \/ KeywordNotice
    \/ KeywordSearch
    \/ CodeDisplay
    \/ CodeNoMatch
    \/ KeywordDisplay
    \/ KeywordNoMatch

Spec == Init /\ [][Next]_vars

----------------------------------------------------------------------------
(* Properties of a run.                                                    *)

KeysOf(ms) == [i \in DOMAIN ms |-> ms[i][1]]

Called(f) == f \in Range(calls)

\* p is a prefix of s
IsPrefix(p, s) == Len(p) <= Len(s) /\ \A i \in DOMAIN p : s[i] = p[i]

\* p occurs in s at positions a..b
OccursAt(p, s, a, b) ==
    /\ 1 <= a /\ b <= Len(s) /\ b - a + 1 = Len(p)
    /\ \A i \in DOMAIN p : s[a + i - 1] = p[i]

\* p occurs in s as a contiguous substring
Occurs(p, s) == \E a \in 1..(Len(s) + 1) : OccursAt(p, s, a, a + Len(p) - 1)

\* The group of a key in the order of a code lookup.
CodeGroup(k) == IF Len(k) = 3 THEN 0 ELSE IF isalpha(k[4]) THEN 1 ELSE 2

K020 == <<"0", "2", "0">>
K020a == <<"0", "2", "0", "a">>
K0206A == <<"0", "2", "0", "6", "A">>
K022 == <<"0", "2", "2">>

\* C1: after a code lookup on a dataset that satisfies the key invariant, in
\* the returned list every 3-character key precedes every longer key, every
\* key whose character at index 3 is alphabetic precedes every longer key
\* whose character at index 3 is not, keys of the same group ascend
\* lexicographically, and a field precedes each of its subfields.
C1_CodeOrder ==
    (pc = "code" /\ KeyInvariant(Range(KeysOf(data)))) =>
        \A i, j \in DOMAIN matches :
            LET ki == matches[i][1]
                kj == matches[j][1]
            IN  /\ (Len(ki) = 3 /\ Len(kj) > 3) => i < j
                /\ (Len(ki) > 3 /\ Len(kj) > 3 /\ isalpha(ki[4]) /\ ~isalpha(kj[4])) => i < j
                /\ (CodeGroup(ki) = CodeGroup(kj) /\ StrLess(ki, kj)) => i < j
                /\ (Len(ki) = 3 /\ Len(kj) > 3 /\ IsPrefix(ki, kj)) => i < j

\* C1 witness: the dataset holds 0206A, 020a, 020 in this order and the lookup
\* of 02 has returned [020, 020a, 0206A].
C1_Witness ==
    /\ pc = "code"
    /\ KeysOf(data) = <<K0206A, K020a, K020>>
    /\ KeysOf(matches) = <<K020, K020a, K0206A>>

C3_CodeMatches ==
    pc = "code" =>
        LET q == lower(query)
        IN  /\ \A i \in DOMAIN data :
                  IsPrefix(q, lower(data[i][1]))
                      <=> (\E j \in DOMAIN matches : matches[j] = data[i])
            /\ \A j \in DOMAIN matches : matches[j] \in Range(data)
            /\ \A i, j \in DOMAIN matches : i # j => matches[i][1] # matches[j][1]

\* C3 witness: the query 0206a has returned the entry 0206A of a dataset of
\* three entries that also holds 020a.
C3_Witness ==
    /\ pc = "code"
    /\ query = <<"0", "2", "0", "6", "a">>
    /\ KeysOf(matches) = <<K0206A>>
    /\ K020a \in Range(KeysOf(data))
    /\ Len(data) = 3

\* C4: a keyword search returns exactly the entries whose lowercased Value
\* contains the lowercased query as a contiguous substring, each once; the key
\* plays no part.
C4_KeywordMatches ==
    pc = "keyword" =>
        LET q == lower(query)
        IN  /\ \A i \in DOMAIN data :
                  Occurs(q, lower(data[i][2].Value))
                      <=> (\E j \in DOMAIN matches : matches[j] = data[i])
            /\ \A j \in DOMAIN matches : matches[j] \in Range(data)
            /\ \A i, j \in DOMAIN matches : i # j => matches[i][1] # matches[j][1]

\* C4 witness: the query A occurs in the key 0206A, whose Value "Void ISBNs
\* (R)" does not hold it, and the search has returned the other entry only.
C4_Witness ==
    /\ pc = "keyword"
    /\ query = <<"A">>
    /\ KeysOf(data) = <<K0206A, K020>>
    /\ data[1][2].Value = ISBN_PLURAL
    /\ KeysOf(matches) = <<K020>>

\* The characters 0-9: the decimal digits of the alphabet.
IsDecimalDigit(c) == c \in Range(DigitSeq)

\* The digits of the alphabet that are not decimal digits: SUPERSCRIPT TWO.
IsOtherDigit(c) == c = "U+00B2"

\* C5 as stated: once the query is classified, it went to the code lookup if
\* and only if its first character is a decimal digit.
C5_DecimalDigitRouting ==
    Called("is_code_query") =>
        (Called("search_by_code") <=> (query # <<>> /\ IsDecimalDigit(query[1])))

\* C5: once the query is classified, it went to the code lookup if and only if
\* it is not empty and its first character is a digit in the sense of
\* str.isdigit, a decimal digit or another digit such as SUPERSCRIPT TWO;
\* otherwise it went to the keyword search, and never to both; the empty query
\* went to the keyword search.
C5_DigitRouting ==
    Called("is_code_query") =>
        /\ Called("search_by_code")
              <=> (query # <<>> /\ (IsDecimalDigit(query[1]) \/ IsOtherDigit(query[1])))
        /\ Called("search_by_code") => pc \in {"code", "done"}
        /\ ~Called("search_by_code") => pc \in {"keyword_branch", "keyword", "done"}
        /\ ~(Called("search_by_code") /\ Called("search_by_keyword"))
        /\ (pc = "done" /\ ~Called("search_by_code")) => Called("search_by_keyword")
        /\ query = <<>> => pc \in {"keyword_branch", "keyword", "done"}

\* C5 witness: a query that starts with SUPERSCRIPT TWO has been looked up as a
\* code in a dataset that is not empty.
C5_Witness ==
    /\ pc = "done"
    /\ query = <<"U+00B2", "0">>
    /\ Called("search_by_code")
    /\ data # <<>>

KindsOf(out) == [i \in DOMAIN out |-> out[i].kind]

CountKind(kinds) == Cardinality({i \in DOMAIN output : output[i].kind \in kinds})

\* C6 as stated: the empty query goes to the keyword search, which returns the
\* empty list.
C6_EmptyQueryMatchesNothing ==
    (query = <<>> /\ Called("search_by_keyword")) =>
        (~Called("search_by_code") /\ matches = <<>>)

\* C6: the empty query goes to the keyword search, which returns every entry
\* of the dataset, each once; the run reports that no fields match the keyword
\* only if the dataset is empty.
C6_EmptyQueryMatchesAll ==
    (query = <<>> /\ Called("search_by_keyword")) =>
        /\ ~Called("search_by_code")
        /\ Len(matches) = Len(data)
        /\ Range(matches) = Range(data)
        /\ pc = "done" =>
              ("No fields found matching keyword:" \in Range(KindsOf(output))
                  <=> data = <<>>)

\* C6 witness: the run of the empty query on a dataset of 3 entries has ended
\* with 3 matches.
C6_Witness ==
    /\ pc = "done"
    /\ query = <<>>
    /\ Len(data) = 3
    /\ Len(matches) = 3

\* The characters that end a word of a Value: whitespace and - / , ( )
Separators == {" ", "-", "/", ",", "(", ")"}

\* q is a whole word of v: it occurs in v between separators or the ends of v
\* and holds no separator itself.
WholeWord(q, v) ==
    /\ q # <<>>
    /\ \A i \in DOMAIN q : q[i] \notin Separators
    /\ \E a \in 1..Len(v) :
          LET b == a + Len(q) - 1
          IN  /\ OccursAt(q, v, a, b)
              /\ a = 1 \/ v[a - 1] \in Separators
              /\ b = Len(v) \/ v[b + 1] \in Separators

\* C7 as stated: a search of isbn returns the entry described "International
\* Standard Book Number (ISBN) (NR)" before the entry described "ISBN-related
\* note (R)", whatever their keys.
C7_FieldBeforeHyphenated ==
    (pc = "keyword" /\ lower(query) = <<"i", "s", "b", "n">>) =>
        \A i, j \in DOMAIN matches :
            (matches[i][2].Value = ISBN_FIELD /\ matches[j][2].Value = ISBN_NOTE) => i < j

\* C7: a keyword search returns every entry whose Value holds the query as a
\* whole word (a run of characters between whitespace, - / , ( ) or the ends)
\* before every entry that holds it only inside a longer word, whatever the
\* keys and the dataset order.  A hyphen ends a word: "ISBN-related note (R)"
\* holds isbn as a whole word, as "International Standard Book Number (ISBN)
\* (NR)" does, so a search of isbn returns these two in the order of their
\* keys (3-character keys first, then shorter keys, then lexicographic).
C7_WholeWordFirst ==
    pc = "keyword" =>
        LET q == lower(query)
            whole == [i \in DOMAIN matches |-> WholeWord(q, lower(matches[i][2].Value))]
        IN  \A i, j \in DOMAIN matches :
                LET vi == matches[i][2].Value
                    vj == matches[j][2].Value
                    ki == matches[i][1]
                    kj == matches[j][1]
                IN  /\ (whole[i] /\ ~whole[j]) => i < j
                    /\ (/\ q = <<"i", "s", "b", "n">>
                        /\ {vi, vj} \subseteq {ISBN_FIELD, ISBN_NOTE}
                        /\ i < j)
                          => /\ Len(ki) <= Len(kj)
                             /\ Len(ki) = Len(kj) => StrLess(ki, kj)

\* C7 witness: a search of isbn has returned the hyphenated entry under key 020
\* first, the entry with (ISBN) under key 020a second, and the entry "Void
\* ISBNs (R)" under key 022 last.
C7_Witness ==
    /\ pc = "keyword"
    /\ query = <<"i", "s", "b", "n">>
    /\ KeysOf(matches) = <<K020, K020a, K022>>
    /\ matches[1][2].Value = ISBN_NOTE
    /\ matches[2][2].Value = ISBN_FIELD
    /\ matches[3][2].Value = ISBN_PLURAL

NoMatchKinds ==
    {"No field found matching code:", "No fields found matching keyword:",
     "No matches found."}

RenderKinds == {"brief", "detailed"}

\* C8: a run whose dataset file is missing prints the error and the hint and
\* ends with status 1 without classifying or searching; a run that loads its
\* dataset and finds no match prints one no-match message, the one of its query
\* type, renders no entry and ends with status 0; and no other run ends with
\* status 1.
C8_ExitBehaviour ==
    /\ (~file_exists /\ pc # "start") =>
          /\ pc = "exit"
          /\ exit_code = "1"
          /\ KindsOf(output) = <<"Error: file not found",
                                 "Run 'python scrape_marc.py' to generate the data file.">>
          /\ calls = <<Loader>>
          /\ ~ENABLED Next
    /\ (file_exists /\ pc = "done" /\ matches = <<>>) =>
          /\ exit_code = "0"
          /\ CountKind(NoMatchKinds) = 1
          /\ CountKind(RenderKinds) = 0
          /\ Called("search_by_code") =>
                "No field found matching code:" \in Range(KindsOf(output))
          /\ Called("search_by_keyword") =>
                "No fields found matching keyword:" \in Range(KindsOf(output))
          /\ ~ENABLED Next
    /\ file_exists => exit_code # "1"

\* C8 witness: a verbose code lookup in a dataset that is not empty has ended
\* without a match.
C8_Witness ==
    /\ pc = "done"
    /\ verbose
    /\ Called("search_by_code")
    /\ data # <<>>
    /\ matches = <<>>

Notice == Message("Note: Verbose mode is not available for keyword searches.", 0)

\* The lines of the output that render an entry.
Rendered(out) == SelectSeq(out, LAMBDA line : line.kind \in RenderKinds)

\* A match without the Details of its entry.
KeyAndValue(ms) == [i \in DOMAIN ms |-> <<ms[i][1], ms[i][2].Value>>]

\* C9: in a run with the verbose flag and a keyword query, the notice is
\* printed once, first, and before the search; the search returns what it
\* returns on the dataset without Details; the run ends with status 0; every
\* match, field or subfield, is rendered in the brief form, in the order of
\* the matches, and nothing is rendered in the detailed form.
C9_VerboseKeyword ==
    (verbose /\ file_exists) =>
        /\ pc = "keyword_branch" => (output = <<Notice>> /\ ~Called("search_by_keyword"))
        /\ Called("search_by_keyword") =>
              /\ output[1] = Notice
              /\ Cardinality({i \in DOMAIN output : output[i] = Notice}) = 1
        /\ pc = "keyword" =>
              KeyAndValue(matches) = KeyAndValue(search_by_keyword(SimpleData(data), query))
        /\ (pc = "done" /\ Called("search_by_keyword")) =>
              /\ exit_code = "0"
              /\ CountKind({"detailed"}) = 0
              /\ Len(Rendered(output)) = Len(matches)
              /\ \A i \in DOMAIN matches :
                    /\ Rendered(output)[i].kind = "brief"
                    /\ Rendered(output)[i].key = matches[i][1]
                    /\ Rendered(output)[i].body = <<>>

\* C9 witness: a verbose search of isbn has ended with three matches, the
\* first of them field 020, whose entry has Details.
C9_Witness ==
    /\ pc = "done"
    /\ verbose
    /\ query = <<"i", "s", "b", "n">>
    /\ KeysOf(matches) = <<K020, K020a, K0206A>>
    /\ "Details" \in DOMAIN matches[1][2]
    /\ Len(output) = 5

\* The keys of ms that have exactly 3 characters, in the order of ms.
FieldKeys(ms) == SelectSeq(KeysOf(ms), LAMBDA k : Len(k) = 3)

\* C10: display_results in verbose mode prints one item for each match whose
\* key has 3 characters, in the order of the matches, and nothing for a match
\* whose key is longer: in a verbose code lookup that has matches, and on the
\* dataset itself taken as a list of matches.
C10_VerboseFieldsOnly ==
    /\ (verbose /\ Called("search_by_code") /\ Called("display_results")) =>
          /\ \A i \in DOMAIN output : Len(output[i].key) = 3
          /\ [i \in DOMAIN output |-> output[i].key] = FieldKeys(matches)
    /\ (verbose /\ pc = "loaded" /\ data # <<>>) =>
          LET out == display_results(data, TRUE)
          IN  /\ \A i \in DOMAIN out : Len(out[i].key) = 3
              /\ [i \in DOMAIN out |-> out[i].key] = FieldKeys(data)

\* C10 witness: a verbose lookup of 02 has matched 020, 020a and 0206A and has
\* printed one item.
C10_Witness ==
    /\ pc = "done"
    /\ verbose
    /\ KeysOf(matches) = <<K020, K020a, K0206A>>
    /\ Called("search_by_code")
    /\ Len(output) = 1

----------------------------------------------------------------------------
(* The two renderers applied to one entry.                                 *)

\* The largest number of parts of a Value.
MaxTokens == 4

\* The largest number of examples a field's Details hold.
MaxExamples == 7

\* The parts the Values are made of: "Title", " ", "(R)", "(NR)" and "R)".
ValueTokens ==
    {<<"T", "i", "t", "l", "e">>, <<" ">>, <<"(", "R", ")">>,
     <<"(", "N", "R", ")">>, <<"R", ")">>}

\* The Values that are rendered: at most MaxTokens parts, in any order.
FormatValues ==
    {Flatten(ts) : ts \in UNION {[1..n -> ValueTokens] : n \in 0..MaxTokens}}

\* The examples lists of a field's Details: at most MaxExamples examples.
ExampleLists == UNION {[1..n -> {"exA", "exB"}] : n \in 0..MaxExamples}

\* The entries that are rendered: an entry without Details of a field or of
\* a subfield, or the entry of a field with Details.
FormatEntries ==
    {<<key, [Key |-> key, Value |-> value, Created |-> "timestamp"]>> :
        key \in {<<"0", "2", "0">>, <<"0", "2", "0", "a">>}, value \in FormatValues}
    \cup
    {<<<<"0", "2", "0">>,
       [Key |-> <<"0", "2", "0">>, Value |-> ISBN_FIELD, Created |-> "timestamp",
        Details |-> [Details020 EXCEPT !.examples = ex]]>> : ex \in ExampleLists}

\* The dict holds one entry; the next step renders it.
FormatInit ==
    /\ pc = "format"
    /\ verbose \in BOOLEAN
    /\ query = <<>>
    /\ file_exists = TRUE
    /\ data \in {<<e>> : e \in FormatEntries}
    /\ matches = <<>>
    /\ calls = <<>>
    /\ output = <<>>
    /\ exit_code = "running"
    /\ previous = <<>>
    /\ ScraperIdle

\* display_results, verbose false: print(format_output(key, entry["Value"]))
FormatBrief ==
    /\ pc = "format"
    /\ ~verbose
    /\ calls' = Append(calls, "format_output")
    /\ output' = Append(output, format_output(data[1][1], data[1][2].Value))
    /\ pc' = "formatted"
    /\ UNCHANGED <<previous, scraper, verbose, query, file_exists, data, matches, exit_code>>

\* display_results, verbose true: print(format_verbose_output(key, entry))
FormatVerbose ==
    /\ pc = "format"
    /\ verbose
    /\ calls' = Append(calls, "format_verbose_output")
    /\ output' = Append(output, format_verbose_output(data[1][1], data[1][2]))
    /\ pc' = "formatted"
    /\ UNCHANGED <<previous, scraper, verbose, query, file_exists, data, matches, exit_code>>

FormatNext ==
    \/ FormatBrief
    \/ FormatVerbose

FormatSpec == FormatInit /\ [][FormatNext]_vars

----------------------------------------------------------------------------
(* Properties of the renderers.                                            *)

\* s without its leading and trailing spaces
Trimmed(s) ==
    LET solid == {i \in DOMAIN s : s[i] # " "}
    IN  IF solid = {} THEN <<>>
        ELSE SubSeq(s, CHOOSE i \in solid : \A j \in solid : i <= j,
                       CHOOSE i \in solid : \A j \in solid : j <= i)

\* s without its last n characters
DropLast(s, n) == [i \in 1..(Len(s) - n) |-> s[i]]

\* the last n characters of s are t
LastAre(s, t) ==
    Len(s) >= Len(t) /\ \A i \in DOMAIN t : s[Len(s) - Len(t) + i] = t[i]

TokenR == <<"(", "R", ")">>
TokenNR == <<"(", "N", "R", ")">>

\* C11: the brief rendering of a Value that ends with "(R)" has the badge (R)
\* and shows the Value without its last 3 characters, trimmed of whitespace;
\* else, of a Value that ends with "(NR)", it has the badge (NR) and shows the
\* Value without its last 4 characters, trimmed; of any other Value it has no
\* badge and shows the Value as it is.  Only the last token is removed, and
\* no step of the rendering changes the stored entries.
C11_StripOneToken ==
    /\ [](pc = "formatted" /\ output[1].kind = "brief" =>
            LET value == data[1][2].Value
                line == output[1]
            IN  IF LastAre(value, TokenR)
                THEN line.repeatability = "(R)" /\ line.value = Trimmed(DropLast(value, 3))
                ELSE IF LastAre(value, TokenNR)
                THEN line.repeatability = "(NR)" /\ line.value = Trimmed(DropLast(value, 4))
                ELSE line.repeatability = "" /\ line.value = value)
    /\ [][data' = data]_vars

\* A Value with two tokens has been rendered: the badge is (NR), and the (R)
\* before it, and the space that follows "Title", are still in the description.
C11_Witness ==
    /\ pc = "formatted"
    /\ data[1][2].Value = <<"T", "i", "t", "l", "e", " ", "(", "R", ")", "(", "N", "R", ")">>
    /\ output[1].kind = "brief"
    /\ output[1].repeatability = "(NR)"
    /\ output[1].value = <<"T", "i", "t", "l", "e", " ", "(", "R", ")">>

\* The example lines of a detailed rendering, in the order printed.
ExampleLinesOf(line) == SelectSeq(line.body, LAMBDA b : b.tag = "example")

\* C12: the detailed rendering of a field with n examples has min(n, 5)
\* example lines; the i-th is numbered i and shows the i-th stored example;
\* with no examples there is no Examples section.
C12_ExamplesCapped ==
    pc = "formatted" /\ output[1].kind = "detailed" =>
        LET examples == data[1][2].Details.examples
            n == Len(examples)
            m == IF n < 5 THEN n ELSE 5
            shown == ExampleLinesOf(output[1])
        IN  /\ Len(shown) = m
            /\ \A i \in 1..m : shown[i].n = i /\ shown[i].text = examples[i]
            /\ n = 0 => \A i \in DOMAIN output[1].body : output[1].body[i].tag # "Examples:"
            /\ n > 0 => \E i \in DOMAIN output[1].body : output[1].body[i].tag = "Examples:"

\* A field with 7 examples has been rendered in detail, with 5 example lines.
C12_Witness ==
    /\ pc = "formatted"
    /\ output[1].kind = "detailed"
    /\ Len(data[1][2].Details.examples) = 7
    /\ Len(ExampleLinesOf(output[1])) = 5

----------------------------------------------------------------------------
(* A caller that runs the search of a query twice on the dict it holds.    *)

\* The dict has been loaded from marc.json and the query received.
RepeatInit ==
    /\ pc = "loaded"
    /\ verbose = FALSE
    /\ query \in QueryPool
    /\ file_exists = TRUE
    /\ data \in Datasets(FALSE)
    /\ matches = <<>>
    /\ calls = <<"load_marc_data">>
    /\ output = <<>>
    /\ exit_code = "running"
    /\ previous = <<>>
    /\ ScraperIdle

\* A search_by_code that removes from the dict the entries it returns.
CodeSearchConsuming ==
    /\ pc = "code"
    /\ calls' = Append(calls, "search_by_code")
    /\ previous' = matches
    /\ matches' = search_by_code(data, query)
    /\ data' = SelectSeq(data, LAMBDA item : ~code_matches(item[1], lower(query)))
    /\ pc' = "code_again"
    /\ UNCHANGED <<scraper, verbose, query, file_exists, output, exit_code>>

\* search_by_code(data, query) once more, on the dict as the first call left it
CodeSearchAgain ==
    /\ pc = "code"
    /\ calls' = Append(calls, "search_by_code")
    /\ previous' = matches
    /\ matches' = search_by_code(data, query)
    /\ pc' = "code_again"
    /\ UNCHANGED <<scraper, verbose, query, file_exists, data, output, exit_code>>

\* search_by_keyword(data, query) once more, on the dict as the first call left it
KeywordSearchAgain ==
    /\ pc = "keyword"
    /\ calls' = Append(calls, "search_by_keyword")
    /\ previous' = matches
    /\ matches' = search_by_keyword(data, query)
    /\ pc' = "keyword_again"
    /\ UNCHANGED <<scraper, verbose, query, file_exists, data, output, exit_code>>

RepeatNext ==
    \/ CodeSearch
    \/ KeywordNotice
    \/ KeywordSearch
    \/ CodeSearchAgain
    \/ KeywordSearchAgain

RepeatSpec == RepeatInit /\ [][RepeatNext]_vars

----------------------------------------------------------------------------
(* scrape_all_fields() of src/scrape_marc.py: one step per page fetched    *)
(* and per entry put into all_data.  The pages of the LOC site are the     *)
(* environment: each fetch either raises or returns one of the pages below.*)

\* The number of pages of FIELD_RANGE_PAGES that are scraped.
MaxPages == 2

\* The largest number of fields extract_field_links finds on one page.
MaxFields == 2

FIELD_RANGE_PAGES ==
    <<"bd00x.html", "bd01x09x.html", "bd1xx.html", "bd20x24x.html",
      "bd25x28x.html", "bd3xx.html", "bd4xx.html", "bd5xx.html", "bd6xx.html",
      "bd70x75x.html", "bd80x83x.html", "bd84188x.html">>

\* "International Standard Book Number"
DESC_020 ==
    <<"I", "n", "t", "e", "r", "n", "a", "t", "i", "o", "n", "a", "l", " ",
      "S", "t", "a", "n", "d", "a", "r", "d", " ", "B", "o", "o", "k", " ",
      "N", "u", "m", "b", "e", "r">>

\* "Key Title"
DESC_222 ==
    <<"K", "e", "y", " ", "T", "i", "t", "l", "e">>

\* "Main Series Entry"
DESC_760 ==
    <<"M", "a", "i", "n", " ", "S", "e", "r", "i", "e", "s", " ", "E", "n",
      "t", "r", "y">>

\* "Subseries Entry"
DESC_762 ==
    <<"S", "u", "b", "s", "e", "r", "i", "e", "s", " ", "E", "n", "t", "r",
      "y">>

\* The (field_num, description, repeatability) tuples extract_field_links
\* can return: the matches of (\d{3})\s*[-–]\s*([^(]+?)\s*\(([RN]{1,2})\), here
\* of fields 020, 222 and 760.
IndexFields ==
    {<<<<"0", "2", "0">>, DESC_020, <<"R">>>>,
     <<<<"2", "2", "2">>, DESC_222, <<"R">>>>,
     <<<<"7", "6", "0">>, DESC_760, <<"R">>>>}

\* The lists extract_field_links can return for one page; a field can be
\* listed twice, and on several pages.
FieldLists == UNION {[1..n -> IndexFields] : n \in 0..MaxFields}

\* The first entries of LINKING_ENTRY_FIELDS.
LINKING_ENTRY_FIELDS ==
    <<<<<<"7", "6", "0">>, DESC_760, <<"R">>>>,
      <<<<"7", "6", "2">>, DESC_762, <<"R">>>>>>

\* "Title"
DESC_a ==
    <<"T", "i", "t", "l", "e">>

\* "Linkage"
DESC_6 ==
    <<"L", "i", "n", "k", "a", "g", "e">>

\* The items of field_info["subfields"] of a concise page: subfield code and
\* its description, extended description and repeatability.
Subfield_a ==
    <<<<"a">>, [description |-> DESC_a, extended |-> "", repeatability |-> <<"N", "R">>]>>
Subfield_6 ==
    <<<<"6">>, [description |-> DESC_6, extended |-> "See Appendix A.",
                repeatability |-> <<"N", "R">>]>>

\* What extract_detailed_field_info can return for a page it could fetch and
\* parse: field_info, whose "subfields" holds no, one or two subfields.
DetailPages ==
    {[definition |-> "definition", indicators |-> <<>>, subfields |-> subs,
      examples |-> <<"ex1">>] :
        subs \in {<<>>, <<Subfield_a>>, <<Subfield_a, Subfield_6>>}}

\* What extract_subfields_from_concise can return for a page it could fetch:
\* the (subfield_code, description, repeatability) tuples of the matches.
FallbackLists ==
    {<<>>, <<<<<<"a">>, DESC_a, <<"N", "R">>>>>>,
     <<<<<<"a">>, DESC_a, <<"N", "R">>>>, <<<<"6">>, DESC_6, <<"N", "R">>>>>>}

\* The status codes of the HTTPErrors that raise_for_status() raises here.
NOT_FOUND == 404

\* Statuses other than 404 for which raise_for_status() raises.
OtherStatuses == {403, 500}

\* "Key Title (R)"
VALUE_222 ==
    <<"K", "e", "y", " ", "T", "i", "t", "l", "e", " ", "(", "R", ")">>

\* "Key title"
DESC_222a ==
    <<"K", "e", "y", " ", "t", "i", "t", "l", "e">>

\* "Qualifying information"
DESC_222b ==
    <<"Q", "u", "a", "l", "i", "f", "y", "i", "n", "g", " ", "i", "n", "f",
      "o", "r", "m", "a", "t", "i", "o", "n">>

\* "Field link and sequence number"
DESC_2228 ==
    <<"F", "i", "e", "l", "d", " ", "l", "i", "n", "k", " ", "a", "n", "d",
      " ", "s", "e", "q", "u", "e", "n", "c", "e", " ", "n", "u", "m", "b",
      "e", "r">>

FIELD_222_MANUAL ==
    [Key |-> <<"2", "2", "2">>,
     Value |-> VALUE_222,
     Details |->
        [definition |-> "Unique title for a continuing resource",
         indicators |-> <<<<"First - Undefined", <<"# - Undefined">>>>,
                          <<"Second - Nonfiling characters",
                            <<"0 - No nonfiling characters",
                              "1-9 - Number of nonfiling characters">>>>>>,
         subfields |->
            <<<<<<"a">>, [description |-> DESC_222a, extended |-> "",
                          repeatability |-> <<"N", "R">>]>>,
              <<<<"b">>, [description |-> DESC_222b, extended |-> "Parenthetical information",
                          repeatability |-> <<"N", "R">>]>>,
              <<<<"6">>, [description |-> DESC_6, extended |-> "See Appendix A",
                          repeatability |-> <<"N", "R">>]>>,
              <<<<"8">>, [description |-> DESC_2228, extended |-> "See Appendix A",
                          repeatability |-> <<"R">>]>>>>,
         examples |-> <<"#0$aViva$b(New York)", "#0$aCauses of death",
                        "#4$aDer Offentliche Dienst$b(Koln)",
                        "#0$aJournal of polymer science. Part B. Polymer letters",
                        "#0$aEconomic education bulletin$b(Great Barrington)">>]]

\* all_data[key] = entry: the entry of a key the dict holds is replaced in
\* place, a new key is added at the end.
put(d, key, entry) ==
    IF \E i \in DOMAIN d : d[i][1] = key
    THEN [i \in DOMAIN d |-> IF d[i][1] = key THEN <<key, entry>> ELSE d[i]]
    ELSE Append(d, <<key, entry>>)

\* f"{description} ({repeatability})"
with_repeatability(description, repeatability) ==
    description \o <<" ", "(">> \o repeatability \o <<")">>

\* field_value of a field of an index page: field 020 gets " (ISBN)".
index_field_value(field) ==
    IF field[1] = <<"0", "2", "0">>
    THEN with_repeatability(field[2] \o <<" ", "(", "I", "S", "B", "N", ")">>, field[3])
    ELSE with_repeatability(field[2], field[3])

\* field_value of a field of LINKING_ENTRY_FIELDS
linking_field_value(field) == with_repeatability(field[2], field[3])

\* field_entry without Details: detailed_info is None
field_entry(key, value) == [Key |-> key, Value |-> value, Created |-> "timestamp"]

\* field_entry with field_entry["Details"] = detailed_info
detailed_field_entry(key, value, detailed_info) ==
    [Key |-> key, Value |-> value, Created |-> "timestamp", Details |-> detailed_info]

\* The (subfield_code, description, repeatability) of detailed_info["subfields"].items()
subfield_tuples(detailed_info) ==
    [i \in DOMAIN detailed_info.subfields |->
        <<detailed_info.subfields[i][1], detailed_info.subfields[i][2].description,
          detailed_info.subfields[i][2].repeatability>>]

\* all_data after all_data[subfield_key] = {...} for the subfield sub of field
add_subfield(d, field, sub) ==
    put(d, field \o sub[1], field_entry(field \o sub[1], with_repeatability(sub[2], sub[3])))

\* The print() of the handler of a 404 in extract_detailed_field_info and in
\* extract_subfields_from_concise.
NoConcisePage(field) ==
    Printed("No concise page found for field", field, <<>>, <<>>, "", <<>>, NOT_FOUND)

\* The print() of `except Exception` in extract_detailed_field_info
DetailError(field) ==
    Printed("Error extracting detailed info for", field, <<>>, <<>>, "", <<>>, 0)

\* The print() of `except Exception` in extract_subfields_from_concise
SubfieldError(field) ==
    Printed("Error extracting subfields for", field, <<>>, <<>>, "", <<>>, 0)

\* The traceback of an HTTPError that nothing catches: the function whose
\* handler let it pass, the field it was fetching for, and the status.
Uncaught(function, field, status) ==
    Printed("HTTPError", field, <<>>, function, "", <<>>, status)

\* The positions of the loop over the fields of an index page and of the
\* loop over LINKING_ENTRY_FIELDS.
Loops == {"index", "linking"}
At ==
    [index |-> [fields |-> "fields", detail |-> "detail", fallback |-> "fallback",
                subfields |-> "subfields"],
     linking |-> [fields |-> "linking_fields", detail |-> "linking_detail",
                  fallback |-> "linking_fallback", subfields |-> "linking_subfields"]]

\* field_value of the field the loop is at
field_value(loop) ==
    IF loop = "index" THEN index_field_value(Head(fields_left))
    ELSE linking_field_value(Head(fields_left))

\* The variables of main() of the lookup program, which the scraper leaves alone.
lookup == <<verbose, query, file_exists, data, matches, calls, previous>>

ScrapeInit ==
    /\ pc = "pages"
    /\ verbose = FALSE
    /\ query = <<>>
    /\ file_exists = FALSE
    /\ data = <<>>
    /\ matches = <<>>
    /\ calls = <<>>
    /\ output = <<>>
    /\ exit_code = "running"
    /\ previous = <<>>
    /\ all_data = <<>>
    /\ seen_fields = {}
    /\ pages = SubSeq(FIELD_RANGE_PAGES, 1, MaxPages)
    /\ fields_left = <<>>
    /\ field_num = <<>>
    /\ subfields_left = <<>>

\* for page in FIELD_RANGE_PAGES: soup = fetch_page(url); fields = extract_field_links(soup)
FetchIndexPage ==
    /\ pc = "pages"
    /\ pages # <<>>
    /\ pages' = Tail(pages)
    /\ fields_left' \in FieldLists
    /\ pc' = "fields"
    /\ UNCHANGED <<lookup, output, exit_code, all_data, seen_fields, field_num,
                   subfields_left>>

\* fetch_page(url) of an index page raises: raise_for_status() on any error
\* status, and nothing in scrape_all_fields or main catches it.
FetchIndexPageRaises ==
    /\ pc = "pages"
    /\ pages # <<>>
    /\ \E status \in {NOT_FOUND} \cup OtherStatuses :
          output' = Append(output, Uncaught("fetch_page", <<>>, status))
    /\ exit_code' = "1"
    /\ pc' = "raised"
    /\ UNCHANGED <<lookup, scraper>>

\* The fields of the page are done: the next page, or the manual field 222.
PageDone ==
    /\ pc = "fields"
    /\ fields_left = <<>>
    /\ pc' = IF pages = <<>> THEN "manual_222" ELSE "pages"
    /\ UNCHANGED <<lookup, output, exit_code, scraper>>

\* if field_num in seen_fields: continue
SkipSeenField(loop) ==
    /\ pc = At[loop].fields
    /\ fields_left # <<>>
    /\ Head(fields_left)[1] \in seen_fields
    /\ fields_left' = Tail(fields_left)
    /\ UNCHANGED <<lookup, output, exit_code, pc, all_data, seen_fields, pages,
                   field_num, subfields_left>>

\* seen_fields.add(field_num); if field_num == "222": continue
SkipField222 ==
    /\ pc = "fields"
    /\ fields_left # <<>>
    /\ Head(fields_left)[1] \notin seen_fields
    /\ Head(fields_left)[1] = <<"2", "2", "2">>
    /\ seen_fields' = seen_fields \cup {Head(fields_left)[1]}
    /\ fields_left' = Tail(fields_left)
    /\ UNCHANGED <<lookup, output, exit_code, pc, all_data, pages, field_num,
                   subfields_left>>

\* seen_fields.add(field_num), and the loop body goes on to
\* extract_detailed_field_info(field_num).  Head(fields_left) stays the tuple
\* of the field until its subfields are done.
TakeField(loop) ==
    /\ pc = At[loop].fields
    /\ fields_left # <<>>
    /\ Head(fields_left)[1] \notin seen_fields
    /\ loop = "index" => Head(fields_left)[1] # <<"2", "2", "2">>
    /\ seen_fields' = seen_fields \cup {Head(fields_left)[1]}
    /\ field_num' = Head(fields_left)[1]
    /\ pc' = At[loop].detail
    /\ UNCHANGED <<lookup, output, exit_code, all_data, pages, fields_left,
                   subfields_left>>

\* DetailFound without all_data[field_key] = field_entry.
DetailFoundFieldNotAdded(loop) ==
    /\ pc = At[loop].detail
    /\ \E detailed_info \in DetailPages :
          /\ subfields_left' = subfield_tuples(detailed_info)
          /\ pc' = IF detailed_info.subfields # <<>> THEN At[loop].subfields
                   ELSE At[loop].fallback
    /\ UNCHANGED <<lookup, output, exit_code, all_data, seen_fields, pages, fields_left,
                   field_num>>

\* extract_detailed_field_info returns field_info: the field is added with
\* Details; its subfields come from detailed_info["subfields"], or from the
\* fallback if that is empty.
DetailFound(loop) ==
    /\ pc = At[loop].detail
    /\ \E detailed_info \in DetailPages :
          /\ all_data' = put(all_data, field_num,
                             detailed_field_entry(field_num, field_value(loop), detailed_info))
          /\ subfields_left' = subfield_tuples(detailed_info)
          /\ pc' = IF detailed_info.subfields # <<>> THEN At[loop].subfields
                   ELSE At[loop].fallback
    /\ UNCHANGED <<lookup, output, exit_code, seen_fields, pages, fields_left, field_num>>

\* extract_detailed_field_info returns None: fetch_page raised an HTTPError
\* with status 404, or the try block raised an exception that is not an
\* HTTPError.  The field is added without Details.
DetailMissing(loop) ==
    /\ pc = At[loop].detail
    /\ output' \in {Append(output, NoConcisePage(field_num)),
                    Append(output, DetailError(field_num))}
    /\ all_data' = put(all_data, field_num, field_entry(field_num, field_value(loop)))
    /\ pc' = At[loop].fallback
    /\ UNCHANGED <<lookup, exit_code, seen_fields, pages, fields_left, field_num,
                   subfields_left>>

\* fetch_page raises an HTTPError with a status other than 404 inside
\* extract_detailed_field_info: the handler re-raises it, `except Exception`
\* of the same try does not apply to it, and scrape_all_fields and main have
\* no handler, so the run ends with the traceback.
DetailRaises(loop) ==
    /\ pc = At[loop].detail
    /\ \E status \in OtherStatuses :
          output' = Append(output, Uncaught("extract_detailed_field_info", field_num, status))
    /\ exit_code' = "1"
    /\ pc' = "raised"
    /\ UNCHANGED <<lookup, scraper>>

\* extract_subfields_from_concise(field_num) returns the subfields it matched.
FallbackFound(loop) ==
    /\ pc = At[loop].fallback
    /\ subfields_left' \in FallbackLists
    /\ pc' = At[loop].subfields
    /\ UNCHANGED <<lookup, output, exit_code, all_data, seen_fields, pages, fields_left,
                   field_num>>

\* extract_subfields_from_concise(field_num) returns []: a 404, or an
\* exception that is not an HTTPError.
FallbackMissing(loop) ==
    /\ pc = At[loop].fallback
    /\ output' \in {Append(output, NoConcisePage(field_num)),
                    Append(output, SubfieldError(field_num))}
    /\ subfields_left' = <<>>
    /\ pc' = At[loop].subfields
    /\ UNCHANGED <<lookup, exit_code, all_data, seen_fields, pages, fields_left, field_num>>

\* extract_subfields_from_concise(field_num) re-raises an HTTPError with a
\* status other than 404, and the run ends with the traceback.
FallbackRaises(loop) ==
    /\ pc = At[loop].fallback
    /\ \E status \in OtherStatuses :
          output' = Append(output, Uncaught("extract_subfields_from_concise", field_num, status))
    /\ exit_code' = "1"
    /\ pc' = "raised"
    /\ UNCHANGED <<lookup, scraper>>

\* One iteration of the loop over the subfields of field_num.
AddSubfield(loop) ==
    /\ pc = At[loop].subfields
    /\ subfields_left # <<>>
    /\ all_data' = add_subfield(all_data, field_num, Head(subfields_left))
    /\ subfields_left' = Tail(subfields_left)
    /\ UNCHANGED <<lookup, output, exit_code, pc, seen_fields, pages, fields_left,
                   field_num>>

\* The subfields of field_num are done: the next field of the loop.
FieldDone(loop) ==
    /\ pc = At[loop].subfields
    /\ subfields_left = <<>>
    /\ fields_left' = Tail(fields_left)
    /\ pc' = At[loop].fields
    /\ UNCHANGED <<lookup, output, exit_code, all_data, seen_fields, pages, field_num,
                   subfields_left>>

\* field_222 = FIELD_222_MANUAL.copy(); field_222["Created"] = timestamp;
\* all_data["222"] = field_222
AddField222 ==
    /\ pc = "manual_222"
    /\ all_data' = put(all_data, FIELD_222_MANUAL.Key,
                       detailed_field_entry(FIELD_222_MANUAL.Key, FIELD_222_MANUAL.Value,
                                            FIELD_222_MANUAL.Details))
    /\ subfields_left' = subfield_tuples(FIELD_222_MANUAL.Details)
    /\ pc' = "manual_subfields"
    /\ UNCHANGED <<lookup, output, exit_code, seen_fields, pages, fields_left, field_num>>

\* One iteration of the loop over FIELD_222_MANUAL["Details"]["subfields"].
AddSubfield222 ==
    /\ pc = "manual_subfields"
    /\ subfields_left # <<>>
    /\ all_data' = add_subfield(all_data, <<"2", "2", "2">>, Head(subfields_left))
    /\ subfields_left' = Tail(subfields_left)
    /\ UNCHANGED <<lookup, output, exit_code, pc, seen_fields, pages, fields_left,
                   field_num>>

\* for field_num, description, repeatability in LINKING_ENTRY_FIELDS
StartLinking ==
    /\ pc = "manual_subfields"
    /\ subfields_left = <<>>
    /\ fields_left' = LINKING_ENTRY_FIELDS
    /\ pc' = "linking_fields"
    /\ UNCHANGED <<lookup, output, exit_code, all_data, seen_fields, pages, field_num,
                   subfields_left>>

\* return all_data
Return ==
    /\ pc = "linking_fields"
    /\ fields_left = <<>>
    /\ pc' = "returned"
    /\ UNCHANGED <<lookup, output, exit_code, scraper>>

ScrapeNext ==
    \/ FetchIndexPage
    \/ FetchIndexPageRaises
    \/ PageDone
    \/ SkipField222
    \/ \E loop \in Loops : SkipSeenField(loop)
    \/ \E loop \in Loops : TakeField(loop)
    \/ \E loop \in Loops : DetailFound(loop)
    \/ \E loop \in Loops : DetailMissing(loop)
    \/ \E loop \in Loops : DetailRaises(loop)
    \/ \E loop \in Loops : FallbackFound(loop)
    \/ \E loop \in Loops : FallbackMissing(loop)
    \/ \E loop \in Loops : FallbackRaises(loop)
    \/ \E loop \in Loops : AddSubfield(loop)
    \/ \E loop \in Loops : FieldDone(loop)
    \/ AddField222
    \/ AddSubfield222
    \/ StartLinking
    \/ Return

ScrapeSpec == ScrapeInit /\ [][ScrapeNext]_vars

----------------------------------------------------------------------------
(* Properties of the scrape.                                               *)

\* The keys of a dict
DictKeys(d) == {d[i][1] : i \in DOMAIN d}

\* C14: in every state of scrape_all_fields, the dict it returns included,
\* every key of all_data has exactly 3 characters, or has more and its first
\* 3 characters are a key of all_data.
C14_KeyInvariant ==
    \A k \in DictKeys(all_data) :
        Len(k) = 3 \/ (Len(k) > 3 /\ SubSeq(k, 1, 3) \in DictKeys(all_data))

\* scrape_all_fields has returned a dict with subfields of a field of an index
\* page, of the manual field 222 and of a linking-entry field.
C14_Witness ==
    /\ pc = "returned"
    /\ {<<"0", "2", "0", "a">>, <<"2", "2", "2", "8">>, <<"7", "6", "2", "6">>}
          \subseteq DictKeys(all_data)

\* The entry all_data holds for a key
EntryOf(d, key) == d[CHOOSE i \in DOMAIN d : d[i][1] = key][2]

\* all_data holds the field, without Details
AddedWithoutDetails(field) ==
    /\ field \in DictKeys(all_data)
    /\ "Details" \notin DOMAIN EntryOf(all_data, field)

\* The steps of the scrape at which the fallback extraction of field_num is
\* about to run.
FallbackPositions == {At[loop].fallback : loop \in Loops}

\* C15: when the fetch of a field's detail page in extract_detailed_field_info
\* has failed with an HTTP error other than 404, the scrape has not ended: the
\* field is in all_data without Details and the run goes on; and when it has
\* failed with a 404, the field is in all_data without Details and the
\* fallback extraction is next.
C15_FailureContained ==
    /\ \A i \in DOMAIN output :
          (output[i].kind = "HTTPError" /\ output[i].value = "extract_detailed_field_info")
              => /\ pc # "raised"
                 /\ exit_code = "running"
                 /\ AddedWithoutDetails(output[i].key)
    /\ (pc \in FallbackPositions /\ output # <<>>
            /\ output[Len(output)] = NoConcisePage(field_num))
          => AddedWithoutDetails(field_num) /\ exit_code = "running"

\* C16: a run of main() that has loaded its dataset and handled its query has
\* printed a rendered entry or a no-match message.
C16_AlwaysReports ==
    pc = "done" => \E i \in DOMAIN output : output[i].kind \in RenderKinds \cup NoMatchKinds

====
